---- MODULE Spec2Model ----
(***************************************************************************)
(* Silver layer of the finance data warehouse: the account balance engine  *)
(* (code/silver/loaders/account_balances.py) over the tables               *)
(* silver.accounts, silver.fiscal_periods, silver.journal_entries,         *)
(* silver.journal_lines and silver.account_balances, the account           *)
(* classifier of the silver accounts loaders, the fiscal period loader     *)
(* (fiscal_periods.py) and the journal loaders (journal_entries.py,        *)
(* journal_lines.py).                                                      *)
(*                                                                         *)
(* A SQL value that may be NULL is modelled as a sequence of length at     *)
(* most one: NULL is << >> and the value v is << v >>.                     *)
(*                                                                         *)
(* The balance engine specification (Spec) counts dates in months: the     *)
(* fiscal period of month m has start_date = end_date = m, and             *)
(* CURRENT_DATE = c says that the last day of month c has been reached and *)
(* the last day of month c + 1 has not. It keeps of silver.fiscal_periods  *)
(* and silver.journal_entries the columns the engine reads. The loader     *)
(* specifications (SpecPeriods, SpecJournal) keep the columns the loaders  *)
(* write, with dates as [year, month, day] and timestamps in seconds.      *)
(*                                                                         *)
(* One invocation of load_account_balances_main is one action. Its SQL     *)
(* statements run in one transaction, so a statement that raises leaves    *)
(* the table as it was at the last commit.                                 *)
(***************************************************************************)
EXTENDS Integers, Sequences, FiniteSets, TLC

\* ------------------------------------------------------------------ bounds
NumAccounts == 2
NumPeriods == 3
MaxAmount == 1
MaxLineNo == 1
MaxEdits == 2
MaxRuns == 2
FirstYear == 2023
NumYears == 2
MaxLoads == 2
NumEntries == 2
MaxLedgerLines == 2
MaxLedgerRows == 2

\* ------------------------------------------------------------ SQL values
NULL == << >>
Some(v) == << v >>
IsNull(x) == x = NULL
Val(x) == x[1]
\* x + y of SQL: NULL when either operand is NULL
NullAdd(x, y) == IF IsNull(x) \/ IsNull(y) THEN NULL ELSE Some(Val(x) + Val(y))

\* ---------------------------------------------------------------- tables
VARIABLES
    fiscal_periods,    \* silver.fiscal_periods: period_id -> row
    current_date,      \* CURRENT_DATE of the database session
    journal_entries,   \* silver.journal_entries: entry_id -> period_id (nullable), or -> row
    journal_lines,     \* silver.journal_lines: set of rows, key (entry_id, line_number)
    account_balances,  \* silver.account_balances: <<account_id, period_id>> -> row
    last_call,         \* the last operation: [op, period_id, result, outcome, before]
    sync,              \* how account_balances relates to the journal data
    edits,             \* number of journal line changes so far
    runs,              \* number of balance engine or loader invocations so far
    bronze_num,        \* the account number of the raw account row to load
    account_row,       \* the row an accounts loader produced for it (nullable)
    today,             \* date.today() of the loader process
    bronze_ledger,     \* bronze.holded_dailyledger: set of rows
    generate_args,     \* the arguments of a call of generate_fiscal_periods
    generated,         \* the list that call returned (nullable)
    period_id_seq,     \* the last value of the period_id sequence
    accounts,          \* silver.accounts: account_number -> account_id
    entry_id_seq       \* the last value of the entry_id sequence

\* The variables of the loaders, which the balance engine leaves alone.
loader_vars == << bronze_num, account_row, today, bronze_ledger, generate_args,
                  generated, period_id_seq, accounts, entry_id_seq >>

vars == << fiscal_periods, current_date, journal_entries, journal_lines,
           account_balances, last_call, sync, edits, runs, loader_vars >>

Accounts == 1..NumAccounts
Periods == 1..NumPeriods
Dates == 1..NumPeriods
Entries == 1..(NumPeriods + 1)
LineNos == 1..MaxLineNo
Amounts == 0..MaxAmount

\* The calendars: one period per month, period identifiers in any order
\* relative to the months.
Calendars ==
    { f \in [Periods -> Dates] : \A p, q \in Periods : p # q => f[p] # f[q] }

\* A journal line row.
LineRows ==
    [entry_id : Entries, line_number : LineNos, account_id : Accounts,
     debit_amount : Amounts, credit_amount : Amounts]

\* ------------------------------------------------------------- aggregates
RECURSIVE SumDebit(_)
SumDebit(S) ==
    IF S = {} THEN 0
    ELSE LET l == CHOOSE x \in S : TRUE IN l.debit_amount + SumDebit(S \ {l})

RECURSIVE SumCredit(_)
SumCredit(S) ==
    IF S = {} THEN 0
    ELSE LET l == CHOOSE x \in S : TRUE IN l.credit_amount + SumCredit(S \ {l})

\* jl JOIN je ON jl.entry_id = je.entry_id, restricted to one account and
\* one period (je.period_id = p is never true of a NULL period_id).
MovementLines(a, p) ==
    { l \in journal_lines :
        /\ l.account_id = a
        /\ l.entry_id \in DOMAIN journal_entries
        /\ journal_entries[l.entry_id] = Some(p) }

\* account_movements: the groups (account_id, period_id) of the join;
\* a pair without any joined line has no group (LEFT JOIN gives NULLs).
HasMovement(a, p) == MovementLines(a, p) # {}
total_debit(a, p) == IF HasMovement(a, p) THEN Some(SumDebit(MovementLines(a, p))) ELSE NULL
total_credit(a, p) == IF HasMovement(a, p) THEN Some(SumCredit(MovementLines(a, p))) ELSE NULL

\* COALESCE(x, 0)
Coalesce0(x) == IF IsNull(x) THEN 0 ELSE Val(x)

\* EXISTS (SELECT 1 FROM silver.journal_lines jl WHERE jl.account_id = a)
\* and the active_accounts CTE of the period-scoped recompute.
active_accounts == { l.account_id : l \in journal_lines }

\* periods_with_accounts: accounts CROSS JOIN fiscal_periods
\* WHERE fp.end_date <= CURRENT_DATE
periods_with_accounts ==
    { k \in Accounts \X Periods : fiscal_periods[k[2]].end_date <= current_date }

\* ---------------------------------------------------------------- Phase A
\* Mutant of PhaseASelected: the SELECT loses its WHERE clause and takes
\* every account of every ended period.
PhaseASelectedEveryAccount == periods_with_accounts

\* The INSERT ... SELECT ... ON CONFLICT (account_id, period_id) DO UPDATE
\* of calculate_account_balances.
PhaseASelected ==
    { k \in periods_with_accounts :
        \/ ~IsNull(total_debit(k[1], k[2]))
        \/ ~IsNull(total_credit(k[1], k[2]))
        \/ k[1] \in active_accounts }

PhaseA(bal) ==
    [ k \in (DOMAIN bal) \cup PhaseASelected |->
        IF k \notin PhaseASelected THEN bal[k]
        ELSE IF k \in DOMAIN bal
             THEN [ bal[k] EXCEPT
                      !.period_debit = Coalesce0(total_debit(k[1], k[2])),
                      !.period_credit = Coalesce0(total_credit(k[1], k[2])) ]
             ELSE [ start_balance |-> Some(0),
                    period_debit |-> Coalesce0(total_debit(k[1], k[2])),
                    period_credit |-> Coalesce0(total_credit(k[1], k[2])),
                    end_balance |-> Some(0) ] ]

\* ---------------------------------------------------------------- Phase B
\* LAG(period_id) OVER (ORDER BY start_date) over all fiscal periods.
EarlierPeriods(p) ==
    { q \in Periods : fiscal_periods[q].start_date < fiscal_periods[p].start_date }

\* Mutant of prev_period_id: the periods are ordered by period_id.
PrevPeriodById(p) == IF p = 1 THEN NULL ELSE Some(p - 1)

prev_period_id(p) ==
    IF EarlierPeriods(p) = {} THEN NULL
    ELSE Some(CHOOSE q \in EarlierPeriods(p) :
                \A r \in EarlierPeriods(p) :
                    fiscal_periods[r].start_date <= fiscal_periods[q].start_date)

\* (SELECT prev.end_balance FROM silver.account_balances prev
\*  WHERE prev.account_id = a AND prev.period_id = q): NULL without a row.
\* The subquery reads the table as it is when the UPDATE statement starts.
PrevEnd(bal, a, q) ==
    IF <<a, q>> \in DOMAIN bal THEN bal[<<a, q>>].end_balance ELSE NULL

PhaseBRow(bal, k) ==
    LET pp == prev_period_id(k[2])
        net == Some(bal[k].period_debit - bal[k].period_credit)
    IN [ bal[k] EXCEPT
           !.start_balance = IF IsNull(pp) THEN Some(0)
                             ELSE PrevEnd(bal, k[1], Val(pp)),
           !.end_balance   = IF IsNull(pp) THEN net
                             ELSE NullAdd(PrevEnd(bal, k[1], Val(pp)), net) ]

PhaseB(bal) == [ k \in DOMAIN bal |-> PhaseBRow(bal, k) ]

\* ----------------------------------------------- calculate_account_balances
\* Outcomes of one call: it completes, or an exception is raised by the
\* Phase A statement, by the Phase B statement (both before the commit,
\* so the except branch rolls the transaction back), or by the statistics
\* queries that run after the commit.
CalcOutcomes == { "ok", "fail_phase_a", "fail_phase_b", "fail_stats" }

calculate_account_balances(bal, outcome) ==
    IF outcome \in { "fail_phase_a", "fail_phase_b" } THEN bal
    ELSE PhaseB(PhaseA(bal))

\* Mutant of Truncate: the full refresh forgets to clear the table.
TruncateKeepsRows(bal) == bal

\* TRUNCATE TABLE silver.account_balances; conn.commit()
Truncate(bal) == << >>

Result(outcome) == IF outcome = "ok" THEN "ok" ELSE "failed"

\* ---------------------------------------------- recalculate_specific_period
\* Mutant of RecalcMovements: the statement is the upsert of Phase A for the
\* period P and inserts the rows of P that are missing.
RecalcMovementsUpsert(bal, P) ==
    [ k \in (DOMAIN bal) \cup { j \in PhaseASelected : j[2] = P } |->
        IF k[2] = P /\ k[1] \in active_accounts
        THEN [ start_balance |-> IF k \in DOMAIN bal THEN bal[k].start_balance ELSE Some(0),
               period_debit |-> Coalesce0(total_debit(k[1], P)),
               period_credit |-> Coalesce0(total_credit(k[1], P)),
               end_balance |-> IF k \in DOMAIN bal THEN bal[k].end_balance ELSE Some(0) ]
        ELSE bal[k] ]

\* Mutant of RecalcMovements: the UPDATE loses "AND ab.period_id = P" and
\* writes the movements of P into the rows of every period.
RecalcMovementsEveryPeriod(bal, P) ==
    [ k \in DOMAIN bal |->
        IF k[1] \in active_accounts
        THEN [ bal[k] EXCEPT
                 !.period_debit = Coalesce0(total_debit(k[1], P)),
                 !.period_credit = Coalesce0(total_credit(k[1], P)) ]
        ELSE bal[k] ]

\* Step 1: UPDATE silver.account_balances ab SET period_debit, period_credit
\* FROM active_accounts aa LEFT JOIN account_movements am ...
\* WHERE ab.account_id = aa.account_id AND ab.period_id = P
RecalcMovements(bal, P) ==
    [ k \in DOMAIN bal |->
        IF k[2] = P /\ k[1] \in active_accounts
        THEN [ bal[k] EXCEPT
                 !.period_debit = Coalesce0(total_debit(k[1], P)),
                 !.period_credit = Coalesce0(total_credit(k[1], P)) ]
        ELSE bal[k] ]

\* period_chain: P and every fiscal period with a later start date. The
\* recursive term joins every chain row to every later period (UNION ALL),
\* so a period two or more places after P is in the chain several times.
period_chain(P) ==
    { q \in Periods : fiscal_periods[q].start_date >= fiscal_periods[P].start_date }

ChainBetween(P, q) ==
    { r \in Periods : /\ fiscal_periods[P].start_date < fiscal_periods[r].start_date
                      /\ fiscal_periods[r].start_date < fiscal_periods[q].start_date }

\* period_sequence: LAG(period_id) OVER (ORDER BY start_date) over the
\* chain rows. The first copy of a period follows the preceding period, a
\* further copy follows a copy of the same period. UPDATE ... FROM uses one
\* of the joined rows of a target row, which one is not specified.
ChainPrevCandidates(P, q) ==
    IF q = P THEN { NULL }
    ELSE IF ChainBetween(P, q) = {} THEN { Some(P) }
    ELSE { prev_period_id(q), Some(q) }

\* The rows of the UPDATE whose period has more than one chain row.
AmbiguousRows(bal, P) ==
    { k \in DOMAIN bal : k[2] \in period_chain(P) /\ ChainBetween(P, k[2]) # {} }

\* Step 2, one target row; self is TRUE when the chain row used is a
\* further copy of the row's own period.
RecalcRow(bal, P, k, self) ==
    LET net == Some(bal[k].period_debit - bal[k].period_credit)
        before == prev_period_id(P)
        first == IF IsNull(before) THEN NULL ELSE PrevEnd(bal, k[1], Val(before))
        hasFirst == ~IsNull(before) /\ <<k[1], Val(before)>> \in DOMAIN bal
        pp == IF self THEN k[2] ELSE Val(prev_period_id(k[2]))
    IN IF k[2] = P
       THEN [ bal[k] EXCEPT
                !.start_balance = first,
                !.end_balance = IF hasFirst
                                THEN NullAdd(Some(Coalesce0(first)), net)
                                ELSE NULL ]
       ELSE [ bal[k] EXCEPT
                !.start_balance = PrevEnd(bal, k[1], pp),
                !.end_balance = NullAdd(PrevEnd(bal, k[1], pp), net) ]

RecalcBalances(bal, P, pick) ==
    [ k \in DOMAIN bal |->
        IF k[2] \in period_chain(P)
        THEN RecalcRow(bal, P, k, k \in DOMAIN pick /\ pick[k])
        ELSE bal[k] ]

\* Outcomes of one call: it completes, or an exception is raised by the
\* movements statement or by the balances statement; both are before the
\* commit, so the except branch rolls the transaction back. (A server that
\* rejects the ORDER BY written on the recursive UNION ALL of period_chain
\* always takes the outcome fail_balances.)
RecalcOutcomes == { "ok", "fail_movements", "fail_balances" }

\* The set of tables one call may leave.
recalculate_specific_period(bal, P, outcome) ==
    IF outcome # "ok" THEN { bal }
    ELSE LET moved == RecalcMovements(bal, P) IN
         { RecalcBalances(moved, P, pick) :
             pick \in [ AmbiguousRows(moved, P) -> BOOLEAN ] }

\* ------------------------------------------------------ account classifier
\* determine_account_type of loaders/accounts.py
determine_account_type(account_number) ==
    LET first_digit == account_number \div 10000000 IN
    IF first_digit = 1
    THEN (IF account_number \div 1000000 <= 13 THEN "Equity" ELSE "Liability")
    ELSE IF first_digit = 4
    THEN (IF account_number \div 1000000 \in { 40, 41, 47 } THEN "Liability" ELSE "Asset")
    ELSE IF first_digit = 5
    THEN (IF account_number \div 1000000 \in { 50, 51, 52, 56 } THEN "Liability" ELSE "Asset")
    ELSE IF first_digit \in { 2, 3, 4 } THEN "Asset"
    ELSE IF first_digit = 6 THEN "Expense"
    ELSE IF first_digit = 7 THEN "Income"
    ELSE "Unknown"

\* determine_account_type of load_silver_accounts.py
load_silver_accounts_determine_account_type(account_number) ==
    LET first_digit == account_number \div 10000000
        second_digit == (account_number \div 1000000) % 10
    IN
    IF first_digit \in { 2, 3 } THEN "Asset"
    ELSE IF first_digit \in { 6, 8 } THEN "Expense"
    ELSE IF first_digit \in { 7, 9 } THEN "Income"
    ELSE IF first_digit = 1
    THEN (IF second_digit <= 3 THEN "Equity" ELSE "Liability")
    ELSE IF first_digit = 4
    THEN (IF \/ second_digit \in { 0, 1 }
             \/ second_digit = 6
             \/ /\ second_digit = 7
                /\ (account_number \div 10000) % 100
                      \in { 50, 51, 52, 58, 59, 60, 61, 70, 79 }
          THEN "Liability" ELSE "Asset")
    ELSE IF first_digit = 5
    THEN (IF second_digit \in { 0, 1, 2, 5, 6 } THEN "Liability" ELSE "Asset")
    ELSE "Unknown"

\* len(str(account_number)) of a number that is not negative
RECURSIVE NumDigits(_)
NumDigits(n) == IF n < 10 THEN 1 ELSE 1 + NumDigits(n \div 10)

\* str(account_number).startswith(str(prefix))
StartsWith(account_number, prefix) ==
    /\ NumDigits(account_number) >= NumDigits(prefix)
    /\ account_number \div (10 ^ (NumDigits(account_number) - NumDigits(prefix))) = prefix

\* is_tax_relevant of loaders/accounts.py, on the decimal digits
is_tax_relevant(account_number) ==
    \/ StartsWith(account_number, 472) \/ StartsWith(account_number, 477)
    \/ StartsWith(account_number, 473) \/ StartsWith(account_number, 4740)
    \/ StartsWith(account_number, 4745)
    \/ StartsWith(account_number, 7)
    \/ StartsWith(account_number, 6)

\* is_tax_relevant of load_silver_accounts.py, by integer division
load_silver_accounts_is_tax_relevant(account_number) ==
    \/ account_number \div 10000 \in { 4720, 4770 }
    \/ account_number \div 10000 \in { 4740, 4745, 4752 }
    \/ account_number \div 10000000 = 7
    \/ account_number \div 10000000 = 6

\* determine_parent_account, the same in both loaders
determine_parent_account(account_number) == (account_number \div 10) * 10

\* build_parent_hierarchy of load_silver_accounts.py: the parents from the
\* immediate one to the most general one (transform_accounts_data does not
\* call it)
build_parent_hierarchy(account_number) ==
    [ i \in 1..7 |-> (account_number \div (10 ^ i)) * (10 ^ i) ]

\* The adjustment of transform_accounts_data to a number below 10000000.
NormalizeAccountNumber(num) ==
    IF num < 10000000 THEN num * (10 ^ (8 - NumDigits(num))) ELSE num

\* The 8-digit account numbers of the model: every leading four digits,
\* with the lowest and the highest trailing four digits.
AccountNumbers == { p * 10000 + t : p \in 1000..9999, t \in { 0, 9999 } }

\* Source numbers of other lengths: 0, numbers of 1 to 7 digits and numbers
\* of 9 and 10 digits.
ShortAccountNumbers ==
    { 0, 4, 43, 430, 4300, 47200, 472000, 5720001, 123456789, 1234567890 }

\* The row transform_accounts_data builds for one source account whose
\* num column converts to the integer num, in each of the two loaders.
TransformAccount(loader, num) ==
    LET account_number == NormalizeAccountNumber(num) IN
    [ loader |-> loader,
      account_number |-> account_number,
      account_type |-> IF loader = "loaders/accounts.py"
                       THEN determine_account_type(account_number)
                       ELSE load_silver_accounts_determine_account_type(account_number),
      parent_account |-> determine_parent_account(account_number),
      tax_relevant |-> IF loader = "loaders/accounts.py"
                       THEN is_tax_relevant(account_number)
                       ELSE load_silver_accounts_is_tax_relevant(account_number) ]

AccountLoaders == { "loaders/accounts.py", "load_silver_accounts.py" }

\* No accounts loader, period loader or journal loader has anything to do.
AccountsIdle == bronze_num = 0 /\ account_row = NULL
PeriodsIdle ==
    /\ today = NULL
    /\ generate_args = NULL
    /\ generated = NULL
    /\ period_id_seq = 0
JournalIdle ==
    /\ bronze_ledger = {}
    /\ accounts = << >>
    /\ entry_id_seq = 0

\* ------------------------------------------------------ dates and times
\* A date is [year, month, day]; a timestamp counts the seconds since the
\* start of the year before FirstYear, in the local time of the loaders.
Date(year, month, day) == [year |-> year, month |-> month, day |-> day]

IsLeapYear(year) == year % 4 = 0 /\ (year % 100 # 0 \/ year % 400 = 0)

DaysInMonth(year, month) ==
    IF month = 2 THEN (IF IsLeapYear(year) THEN 29 ELSE 28)
    ELSE IF month \in { 4, 6, 9, 11 } THEN 30
    ELSE 31

DaysInYear(year) == IF IsLeapYear(year) THEN 366 ELSE 365

\* a < b and a <= b of two dates
DateLT(a, b) ==
    \/ a.year < b.year
    \/ a.year = b.year /\ a.month < b.month
    \/ a.year = b.year /\ a.month = b.month /\ a.day < b.day
DateLE(a, b) == a = b \/ DateLT(a, b)

\* d - timedelta(days=1)
PrevDay(d) ==
    IF d.day > 1 THEN Date(d.year, d.month, d.day - 1)
    ELSE IF d.month > 1 THEN Date(d.year, d.month - 1, DaysInMonth(d.year, d.month - 1))
    ELSE Date(d.year - 1, 12, 31)

EpochYear == FirstYear - 1
SecondsPerDay == 86400

RECURSIVE DaysBeforeYear(_)
DaysBeforeYear(year) ==
    IF year <= EpochYear THEN 0 ELSE DaysInYear(year - 1) + DaysBeforeYear(year - 1)

RECURSIVE DaysBeforeMonth(_, _)
DaysBeforeMonth(year, month) ==
    IF month = 1 THEN 0
    ELSE DaysInMonth(year, month - 1) + DaysBeforeMonth(year, month - 1)

\* int(datetime.combine(d, time).timestamp()), time given in seconds
Timestamp(d, seconds) ==
    (DaysBeforeYear(d.year) + DaysBeforeMonth(d.year, d.month) + d.day - 1)
        * SecondsPerDay + seconds

RECURSIVE MonthWalk(_, _, _)
MonthWalk(year, month, n) ==
    IF n < DaysInMonth(year, month) THEN Date(year, month, n + 1)
    ELSE MonthWalk(year, month + 1, n - DaysInMonth(year, month))

RECURSIVE YearWalk(_, _)
YearWalk(year, n) ==
    IF n < DaysInYear(year) THEN MonthWalk(year, 1, n)
    ELSE YearWalk(year + 1, n - DaysInYear(year))

\* datetime.fromtimestamp(ts).date()
FromTimestamp(ts) == YearWalk(EpochYear, ts \div SecondsPerDay)

\* -------------------------------------------------- the period generator
\* A row of bronze.holded_dailyledger.
LedgerRow(entrynumber, line, timestamp, account, debit, credit) ==
    [entrynumber |-> entrynumber, line |-> line, timestamp |-> timestamp,
     account |-> account, debit |-> debit, credit |-> credit]

\* MIN(timestamp) over a non-empty set of ledger rows
MinTimestamp(rows) ==
    CHOOSE t \in { r.timestamp : r \in rows } : \A r \in rows : t <= r.timestamp

\* determine_date_range: the pair start_date, end_date
determine_date_range ==
    IF bronze_ledger = {}
    THEN [start_date |-> Date(Val(today).year - 1, 1, 1),
          end_date |-> Date(Val(today).year + 1, 12, 31)]
    ELSE LET min_date == FromTimestamp(MinTimestamp(bronze_ledger)) IN
         [start_date |-> Date(min_date.year, min_date.month, 1),
          end_date |-> Date(Val(today).year + 1, 12, 31)]

\* Mutant of last_day: every month is given 30 days.
LastDayThirty(year, month) == 30

\* last_day of generate_fiscal_periods: the day of the month before the
\* first day of the next month
last_day(year, month) ==
    IF month = 12 THEN 31
    ELSE PrevDay(Date(year, (month % 12) + 1, 1)).day

\* The fiscal period tuple of the month that current_date lies in.
FiscalPeriod(cur, tdy) ==
    LET end_of_month == Date(cur.year, cur.month, last_day(cur.year, cur.month))
        is_closed == DateLT(end_of_month, Date(tdy.year, tdy.month, 1))
    IN [period_year |-> cur.year,
        period_quarter |-> ((cur.month - 1) \div 3) + 1,
        period_month |-> cur.month,
        period_name |-> << cur.year, cur.month >>,
        start_date |-> cur,
        end_date |-> end_of_month,
        is_closed |-> is_closed,
        closing_date |-> IF is_closed THEN Some(end_of_month) ELSE NULL]

\* "Move to next month"
NextMonth(cur) ==
    IF cur.month = 12 THEN Date(cur.year + 1, 1, 1)
    ELSE Date(cur.year, cur.month + 1, 1)

\* The while loop of generate_fiscal_periods from current_date on.
RECURSIVE GenerateFrom(_, _, _)
GenerateFrom(cur, end_date, tdy) ==
    IF DateLE(cur, end_date)
    THEN << FiscalPeriod(cur, tdy) >> \o GenerateFrom(NextMonth(cur), end_date, tdy)
    ELSE << >>

generate_fiscal_periods(start_date, end_date) ==
    GenerateFrom(start_date, end_date, Val(today))

\* ----------------------------------------------------- the period loader
\* The key of the ON CONFLICT clause.
PeriodKey(period) == << period.period_year, period.period_month >>

\* The positions of a list of periods that hold a key.
KeyPositions(periods, key) ==
    { i \in 1..Len(periods) : PeriodKey(periods[i]) = key }

MinOf(S) == CHOOSE x \in S : \A y \in S : x <= y
MaxOf(S) == CHOOSE x \in S : \A y \in S : y <= x

\* Mutant of ConflictingPeriods: no row is seen as a conflict, as if the
\* statement had no ON CONFLICT clause.
NoConflictingPeriods(table, key) == {}

\* The rows of the table that an INSERT of a period with the key conflicts
\* with: ON CONFLICT (period_year, period_month)
ConflictingPeriods(table, key) ==
    { id \in DOMAIN table : PeriodKey(table[id]) = key }

\* TRUNCATE and the plain INSERT statements of a full refresh: the i-th
\* statement inserts the i-th period under the next value of the period_id
\* sequence.
InsertPeriods(seq, periods) ==
    [ id \in (seq + 1)..(seq + Len(periods)) |-> periods[id - seq] ]

\* The INSERT ... ON CONFLICT ... DO UPDATE statements of an incremental
\* load, run in the order of the list. The i-th statement takes the value
\* seq + i of the period_id sequence; it inserts a row when no row of the
\* table and no earlier period of the list has its key, and else overwrites
\* the columns of the row with its key (period_id is not in the SET list).
\* So a row ends with the columns of the last period of the list that has
\* its key.
UpsertPeriods(table, seq, periods) ==
    LET inserting ==
            { i \in 1..Len(periods) :
                /\ ConflictingPeriods(table, PeriodKey(periods[i])) = {}
                /\ i = MinOf(KeyPositions(periods, PeriodKey(periods[i]))) }
        last(key) == periods[MaxOf(KeyPositions(periods, key))]
    IN [ id \in DOMAIN table \cup { seq + i : i \in inserting } |->
           IF id \in DOMAIN table
           THEN (IF KeyPositions(periods, PeriodKey(table[id])) = {}
                 THEN table[id]
                 ELSE last(PeriodKey(table[id])))
           ELSE last(PeriodKey(periods[id - seq])) ]

LoadOutcomes == { "ok", "fail" }

\* load_fiscal_periods: the table it leaves. An empty list returns at once;
\* a statement that raises rolls the transaction back, TRUNCATE included.
load_fiscal_periods(table, seq, periods, full_refresh, outcome) ==
    IF periods = << >> \/ outcome = "fail" THEN table
    ELSE IF full_refresh THEN InsertPeriods(seq, periods)
    ELSE UpsertPeriods(table, seq, periods)

\* ----------------------------------------------------- the journal loaders
\* SUM(col) over a set of rows
RECURSIVE SumColumn(_, _)
SumColumn(rows, col) ==
    IF rows = {} THEN 0
    ELSE LET r == CHOOSE x \in rows : TRUE IN r[col] + SumColumn(rows \ {r}, col)

\* extract_bronze_journal_entries: GROUP BY entrynumber
extract_bronze_journal_entries ==
    [ n \in { r.entrynumber : r \in bronze_ledger } |->
        LET group == { r \in bronze_ledger : r.entrynumber = n } IN
        [entrynumber |-> n,
         timestamp |-> MinTimestamp(group),
         total_debit |-> SumColumn(group, "debit"),
         total_credit |-> SumColumn(group, "credit")] ]

\* get_fiscal_periods: the timestamps of the first and of the last second
\* of a period
start_timestamp(start_date) == Timestamp(start_date, 0)

\* Mutant of end_timestamp: the end date is combined with the first second
\* of the day.
EndTimestampAtMidnight(end_date) == Timestamp(end_date, 0)

end_timestamp(end_date) == Timestamp(end_date, SecondsPerDay - 1)

\* The period_id loop of transform_journal_entries over period_map, which
\* get_fiscal_periods fills in the order of start_date: the first period
\* whose range holds the timestamp, None without one.
FindPeriod(table, entry_timestamp) ==
    LET matching ==
            { id \in DOMAIN table :
                /\ start_timestamp(table[id].start_date) <= entry_timestamp
                /\ entry_timestamp <= end_timestamp(table[id].end_date) }
    IN IF matching = {} THEN NULL
       ELSE Some(CHOOSE id \in matching :
                    \A k \in matching :
                        DateLE(table[id].start_date, table[k].start_date))

\* transform_journal_entries: one tuple for every row of the data frame
transform_journal_entries(df, table) ==
    [ n \in DOMAIN df |->
        [entry_number |-> df[n].entrynumber,
         entry_date |-> FromTimestamp(df[n].timestamp),
         original_timestamp |-> df[n].timestamp,
         period_id |-> FindPeriod(table, df[n].timestamp),
         total_debit |-> df[n].total_debit,
         total_credit |-> df[n].total_credit] ]

\* The place of an entry in the list ORDER BY entrynumber.
EntryRank(entries_data, n) == Cardinality({ k \in DOMAIN entries_data : k <= n })

\* The entry identifiers of the rows with an entry number.
EntriesNumbered(table, n) == { id \in DOMAIN table : table[id].entry_number = n }

\* load_journal_entries: the table it leaves. An empty list returns at
\* once and a statement that raises before the commit rolls back. A full
\* refresh truncates and inserts; an incremental load inserts ON CONFLICT
\* (entry_number) DO UPDATE SET the other columns. The i-th statement takes
\* the value seq + i of the entry_id sequence.
load_journal_entries(table, seq, entries_data, full_refresh, outcome) ==
    LET kept == IF full_refresh THEN << >> ELSE table
        inserting == { n \in DOMAIN entries_data : EntriesNumbered(kept, n) = {} }
        numbered(id) == CHOOSE n \in inserting : seq + EntryRank(entries_data, n) = id
    IN
    IF DOMAIN entries_data = {} \/ outcome = "fail" THEN table
    ELSE [ id \in DOMAIN kept \cup { seq + EntryRank(entries_data, n) : n \in inserting } |->
             IF id \in DOMAIN kept
             THEN (IF kept[id].entry_number \in DOMAIN entries_data
                   THEN entries_data[kept[id].entry_number]
                   ELSE kept[id])
             ELSE entries_data[numbered(id)] ]

\* The query of extract_bronze_journal_lines: bronze.holded_dailyledger JOIN
\* silver.journal_entries ON entrynumber = entry_number AND timestamp =
\* original_timestamp.
JoinedLines ==
    { [entrynumber |-> p[1].entrynumber, line |-> p[1].line,
       timestamp |-> p[1].timestamp, entry_id |-> p[2], account |-> p[1].account,
       debit |-> p[1].debit, credit |-> p[1].credit] :
        p \in { q \in bronze_ledger \X DOMAIN journal_entries :
                  /\ q[1].entrynumber = journal_entries[q[2]].entry_number
                  /\ q[1].timestamp = journal_entries[q[2]].original_timestamp } }

\* ORDER BY dl.entrynumber, dl.timestamp, dl.line
LineOrderLT(x, y) ==
    \/ x.entrynumber < y.entrynumber
    \/ x.entrynumber = y.entrynumber /\ x.timestamp < y.timestamp
    \/ x.entrynumber = y.entrynumber /\ x.timestamp = y.timestamp /\ x.line < y.line

\* The lists cursor.fetchall() may return for the query: the joined rows in
\* the order of the ORDER BY clause, rows that are equal in its three
\* columns in either order.
QueryOrders(rows) ==
    { s \in [ 1..Cardinality(rows) -> rows ] :
        \A i, j \in 1..Cardinality(rows) :
            i < j => s[i] # s[j] /\ ~LineOrderLT(s[j], s[i]) }

\* The rows of a list at the positions of a set, in the order of the list.
Picked(df, keep) ==
    LET pos(k) == CHOOSE i \in keep : Cardinality({ j \in keep : j <= i }) = k
    IN [ k \in 1..Cardinality(keep) |-> df[pos(k)] ]

\* (entrynumber, line, timestamp), the subset of duplicated and
\* drop_duplicates
SameLedgerKey(r, q) ==
    r.entrynumber = q.entrynumber /\ r.line = q.line /\ r.timestamp = q.timestamp

\* extract_bronze_journal_lines, on the list the query returned:
\* drop_duplicates keeps of the rows with the same (entrynumber, line,
\* timestamp) the first one.
extract_bronze_journal_lines(results) ==
    Picked(results, { i \in 1..Len(results) :
                        \A j \in 1..(i - 1) : ~SameLedgerKey(results[j], results[i]) })

\* is_tax_relevant of journal_lines.py
journal_lines_is_tax_relevant(account_number) ==
    \/ account_number \div 10000 \in { 4720, 4770 }
    \/ account_number \div 10000 \in { 4740, 4745, 4752 }
    \/ account_number \div 10000000 = 7
    \/ account_number \div 10000000 = 6

\* The tuple transform_journal_lines builds for a row it keeps.
LineData(x, account_map) ==
    [entry_id |-> x.entry_id,
     line_number |-> x.line,
     account_id |-> account_map[Val(x.account)],
     account_number |-> Val(x.account),
     debit_amount |-> x.debit,
     credit_amount |-> x.credit,
     is_tax_relevant |-> journal_lines_is_tax_relevant(Val(x.account))]

\* transform_journal_lines: the list of tuples it returns, the rows it
\* logs a warning for and skips, and its count of them. A row is skipped
\* when an earlier row has its key (entry_id, line, timestamp), when its
\* account is None and when its account is not in the account map.
transform_journal_lines(df, account_map) ==
    LET keep == { i \in 1..Len(df) :
                    /\ \A j \in 1..(i - 1) :
                         ~( /\ df[j].entry_id = df[i].entry_id
                            /\ df[j].line = df[i].line
                            /\ df[j].timestamp = df[i].timestamp )
                    /\ ~IsNull(df[i].account)
                    /\ Val(df[i].account) \in DOMAIN account_map }
        kept == Picked(df, keep)
    IN [ transformed_data |-> [ k \in 1..Len(kept) |-> LineData(kept[k], account_map) ],
         skipped |-> { df[i] : i \in (1..Len(df)) \ keep },
         skipped_lines |-> Len(df) - Cardinality(keep) ]

\* ON CONFLICT (entry_id, line_number)
SameKey(l, m) == l.entry_id = m.entry_id /\ l.line_number = m.line_number

\* The outcomes of a journal load: it completes, a statement of the load
\* raises, or a statement of the statistics after the last commit raises.
JournalLoadOutcomes == { "ok", "fail", "fail_stats" }

\* load_journal_lines: the table it leaves. An empty list returns at once.
\* A full refresh truncates and commits before the first batch. A batch
\* keeps of the tuples with the same (entry_id, line_number) the first one,
\* and inserts (full refresh) or inserts ON CONFLICT (entry_id, line_number)
\* DO UPDATE, and commits; a statement that raises rolls back to the last
\* commit. The lists of the model fit in the first batch of batch_size
\* tuples.
load_journal_lines(table, lines_data, full_refresh, outcome) ==
    LET batch ==
            { lines_data[i] : i \in { k \in 1..Len(lines_data) :
                \A j \in 1..(k - 1) : ~SameKey(lines_data[j], lines_data[k]) } }
        start == IF full_refresh THEN {} ELSE table
    IN
    IF lines_data = << >> THEN table
    ELSE IF outcome = "fail" THEN start
    ELSE { m \in start : ~\E l \in batch : SameKey(l, m) } \cup batch

\* The calendar is loaded, its last period is the current month, every
\* journal entry is assigned the period of its month (the last entry lies
\* outside the calendar and has no period), and no journal line and no
\* balance row is loaded yet.
Init ==
    /\ fiscal_periods \in
         { [ p \in Periods |-> [start_date |-> c[p], end_date |-> c[p]] ] :
             c \in Calendars }
    /\ current_date = NumPeriods - 1
    /\ journal_entries =
         [ e \in Entries |->
             IF e <= NumPeriods
             THEN Some(CHOOSE p \in Periods : fiscal_periods[p].start_date = e)
             ELSE NULL ]
    /\ journal_lines = {}
    /\ account_balances = << >>
    /\ last_call = [op |-> "none", period_id |-> NULL, result |-> "ok", outcome |-> "ok", before |-> "none"]
    /\ sync = [state |-> "none", period_id |-> NULL]
    /\ edits = 0
    /\ runs = 0
    /\ AccountsIdle
    /\ PeriodsIdle
    /\ JournalIdle

\* load_account_balances_main(full_refresh=True)
FullRefresh ==
    \E outcome \in CalcOutcomes :
        /\ runs < MaxRuns
        /\ account_balances' = calculate_account_balances(Truncate(account_balances), outcome)
        /\ last_call' = [op |-> "full", period_id |-> NULL, result |-> Result(outcome), outcome |-> outcome, before |-> sync.state]
        /\ sync' = [state |-> IF outcome = "ok" THEN "full" ELSE "none", period_id |-> NULL]
        /\ runs' = runs + 1
        /\ UNCHANGED << fiscal_periods, current_date, journal_entries, journal_lines, edits, loader_vars >>

\* load_account_balances_main(full_refresh=False, period_id=None)
StandardUpdate ==
    \E outcome \in CalcOutcomes :
        /\ runs < MaxRuns
        /\ account_balances' = calculate_account_balances(account_balances, outcome)
        /\ last_call' = [op |-> "standard", period_id |-> NULL, result |-> Result(outcome), outcome |-> outcome, before |-> sync.state]
        /\ sync' = [state |-> "none", period_id |-> NULL]
        /\ runs' = runs + 1
        /\ UNCHANGED << fiscal_periods, current_date, journal_entries, journal_lines, edits, loader_vars >>

\* load_account_balances_main(full_refresh=False, period_id=P)
PeriodRecompute ==
    \E P \in Periods, outcome \in RecalcOutcomes :
        /\ runs < MaxRuns
        /\ account_balances' \in recalculate_specific_period(account_balances, P, outcome)
        /\ last_call' = [op |-> "period", period_id |-> Some(P), result |-> Result(outcome), outcome |-> outcome, before |-> sync.state]
        /\ sync' = [state |-> "none", period_id |-> NULL]
        /\ runs' = runs + 1
        /\ UNCHANGED << fiscal_periods, current_date, journal_entries, journal_lines, edits, loader_vars >>

\* The journal data changes between balance runs: load_journal_lines
\* upserts a row on its key (entry_id, line_number) ...
SyncAfterEdit(e) ==
    LET p == journal_entries[e] IN
    IF IsNull(p) THEN [state |-> "none", period_id |-> NULL]
    ELSE IF sync.state = "full" THEN [state |-> "edited", period_id |-> p]
    ELSE IF sync.state = "edited" /\ sync.period_id = p THEN sync
    ELSE [state |-> "none", period_id |-> NULL]

LoadJournalLine ==
    \E l \in LineRows :
        /\ edits < MaxEdits
        /\ l \notin journal_lines
        /\ journal_lines' = { m \in journal_lines : ~SameKey(l, m) } \cup { l }
        /\ edits' = edits + 1
        /\ last_call' = [op |-> "lines", period_id |-> NULL, result |-> "ok", outcome |-> "ok", before |-> "none"]
        /\ sync' = SyncAfterEdit(l.entry_id)
        /\ UNCHANGED << fiscal_periods, current_date, journal_entries, account_balances, runs, loader_vars >>

\* ... and its full refresh truncates the table and reloads it from the
\* raw ledger, which may no longer hold a row.
RemoveJournalLine ==
    \E l \in journal_lines :
        /\ edits < MaxEdits
        /\ journal_lines' = journal_lines \ { l }
        /\ edits' = edits + 1
        /\ last_call' = [op |-> "lines", period_id |-> NULL, result |-> "ok", outcome |-> "ok", before |-> "none"]
        /\ sync' = SyncAfterEdit(l.entry_id)
        /\ UNCHANGED << fiscal_periods, current_date, journal_entries, account_balances, runs, loader_vars >>

\* Time passes: one more fiscal period has ended.
AdvanceDate ==
    /\ current_date < NumPeriods
    /\ current_date' = current_date + 1
    /\ last_call' = [op |-> "date", period_id |-> NULL, result |-> "ok", outcome |-> "ok", before |-> "none"]
    /\ sync' = [state |-> "none", period_id |-> NULL]
    /\ UNCHANGED << fiscal_periods, journal_entries, journal_lines, account_balances, edits, runs, loader_vars >>

Next ==
    \/ FullRefresh
    \/ StandardUpdate
    \/ PeriodRecompute
    \/ LoadJournalLine
    \/ RemoveJournalLine
    \/ AdvanceDate

Spec == Init /\ [][Next]_vars

\* ------------------------------------------------- the accounts loaders
balance_vars == << fiscal_periods, current_date, journal_entries, journal_lines,
                   account_balances, last_call, sync, edits, runs >>

InitAccounts ==
    /\ fiscal_periods = << >>
    /\ current_date = 0
    /\ journal_entries = << >>
    /\ journal_lines = {}
    /\ account_balances = << >>
    /\ last_call = [op |-> "none", period_id |-> NULL, result |-> "ok", outcome |-> "ok", before |-> "none"]
    /\ sync = [state |-> "none", period_id |-> NULL]
    /\ edits = 0
    /\ runs = 0
    /\ bronze_num \in AccountNumbers \cup ShortAccountNumbers
    /\ account_row = NULL
    /\ PeriodsIdle
    /\ JournalIdle

\* transform_accounts_data, one source row
LoadAccount ==
    \E loader \in AccountLoaders :
        /\ account_row = NULL
        /\ account_row' = Some(TransformAccount(loader, bronze_num))
        /\ UNCHANGED << balance_vars, bronze_num, today, bronze_ledger, generate_args,
                        generated, period_id_seq, accounts, entry_id_seq >>

NextAccounts == LoadAccount

SpecAccounts == InitAccounts /\ [][NextAccounts]_vars

\* ------------------------------------------------- the fiscal period loader
\* The dates a call of generate_fiscal_periods is given: the first, the
\* fifteenth and the last day of February and of December.
SampleDates ==
    { Date(y, m, d) : y \in FirstYear..(FirstYear + NumYears - 1), m \in { 2, 12 },
                      d \in { 1, 15 } }
    \cup { Date(y, 12, 31) : y \in FirstYear..(FirstYear + NumYears - 1) }

\* The timestamps of the raw ledger: noon of a day in the middle of a month,
\* one in each year from FirstYear on, the last one after the years a call
\* of generate_fiscal_periods is given.
LedgerTimestamps ==
    { Timestamp(Date(FirstYear + k, 3 + k, 15), 43200) : k \in 0..NumYears }

\* The raw ledger is empty or holds the rows of one entry with one or two
\* timestamps.
LedgerSamples ==
    { {} } \cup
    { { LedgerRow(1, 1, tu[1], 1, 1, 0), LedgerRow(1, 2, tu[2], 1, 0, 1) } :
        tu \in { x \in LedgerTimestamps \X LedgerTimestamps : x[1] <= x[2] } }

Todays == { Date(FirstYear, 12, 31) }

period_vars == << today, bronze_ledger, generate_args >>
other_vars == << current_date, journal_entries, journal_lines, account_balances,
                 sync, edits, bronze_num, account_row, accounts, entry_id_seq >>

InitPeriods ==
    /\ fiscal_periods = << >>
    /\ current_date = 0
    /\ journal_entries = << >>
    /\ journal_lines = {}
    /\ account_balances = << >>
    /\ last_call = [op |-> "none", full_refresh |-> FALSE, result |-> "ok", changed |-> {}]
    /\ sync = [state |-> "none", period_id |-> NULL]
    /\ edits = 0
    /\ runs = 0
    /\ AccountsIdle
    /\ today \in { Some(d) : d \in Todays }
    /\ bronze_ledger \in LedgerSamples
    /\ generate_args \in
         { Some([start_date |-> a, end_date |-> b]) : a \in SampleDates, b \in SampleDates }
    /\ generated = NULL
    /\ period_id_seq = 0
    /\ accounts = << >>
    /\ entry_id_seq = 0

\* The rows of the table that a load changed.
ChangedPeriods(before, after) ==
    { id \in DOMAIN before : id \notin DOMAIN after \/ after[id] # before[id] }

\* The effect of load_fiscal_periods(conn, periods, full_refresh).
LoadPeriodsEffect(periods, full_refresh, outcome) ==
    /\ fiscal_periods' =
         load_fiscal_periods(fiscal_periods, period_id_seq, periods, full_refresh, outcome)
    /\ period_id_seq' =
         IF periods = << >> \/ outcome = "fail" THEN period_id_seq
         ELSE period_id_seq + Len(periods)
    /\ last_call' = [op |-> "load_fiscal_periods",
                     full_refresh |-> full_refresh,
                     result |-> Result(outcome),
                     changed |-> ChangedPeriods(fiscal_periods, fiscal_periods')]
    /\ runs' = runs + 1

\* generate_fiscal_periods(start_date, end_date), called on its own
GenerateFiscalPeriods ==
    /\ IsNull(generated)
    /\ generated' =
         Some([start_date |-> Val(generate_args).start_date,
               end_date |-> Val(generate_args).end_date,
               periods |-> generate_fiscal_periods(Val(generate_args).start_date,
                                                   Val(generate_args).end_date),
               by |-> "call"])
    /\ UNCHANGED << fiscal_periods, period_id_seq, last_call, runs, period_vars, other_vars >>

\* load_fiscal_periods(conn, periods, full_refresh) with a generated list
LoadFiscalPeriods ==
    \E full_refresh \in BOOLEAN, outcome \in LoadOutcomes :
        /\ runs < MaxLoads
        /\ ~IsNull(generated)
        /\ LoadPeriodsEffect(Val(generated).periods, full_refresh, outcome)
        /\ UNCHANGED << generated, period_vars, other_vars >>

\* load_fiscal_periods_main(full_refresh)
LoadFiscalPeriodsMain ==
    \E full_refresh \in BOOLEAN, outcome \in LoadOutcomes :
        LET range == determine_date_range
            periods == generate_fiscal_periods(range.start_date, range.end_date)
        IN
        /\ runs < MaxLoads
        /\ generated' = Some([start_date |-> range.start_date,
                              end_date |-> range.end_date,
                              periods |-> periods,
                              by |-> "main"])
        /\ LoadPeriodsEffect(periods, full_refresh, outcome)
        /\ UNCHANGED << period_vars, other_vars >>

NextPeriods ==
    \/ GenerateFiscalPeriods
    \/ LoadFiscalPeriods
    \/ LoadFiscalPeriodsMain

SpecPeriods == InitPeriods /\ [][NextPeriods]_vars

\* -------------------------------------------- the journal loaders' actions
\* The timestamps of the raw ledger: the first second of February, the
\* last second of February, and the first second of April.
JournalTimestamps ==
    { Timestamp(Date(FirstYear, 2, 1), 0),
      Timestamp(Date(FirstYear, 2, DaysInMonth(FirstYear, 2)), SecondsPerDay - 1),
      Timestamp(Date(FirstYear, 4, 1), 0) }

\* silver.accounts holds the first and the third account of the raw
\* ledger and not the second one.
LedgerAccounts == << 43000000, 57200000, 47210000 >>
AccountMaps == { (LedgerAccounts[1] :> 1) @@ (LedgerAccounts[3] :> 2) }

LedgerRows ==
    { LedgerRow(n, l, t, Some(a), d, MaxAmount - d) :
        n \in 1..NumEntries, l \in 1..MaxLedgerLines, t \in JournalTimestamps,
        a \in { LedgerAccounts[i] : i \in 1..Len(LedgerAccounts) },
        d \in { 0, MaxAmount } }

\* The raw ledgers of at most k rows. No statement of the loaders declares
\* a key of the raw ledger, so two rows may have the same (entrynumber,
\* line, timestamp).
RECURSIVE LedgersUpTo(_)
LedgersUpTo(k) ==
    IF k = 0 THEN { {} }
    ELSE LET smaller == LedgersUpTo(k - 1) IN
         smaller \cup { p[1] \cup { p[2] } : p \in smaller \X LedgerRows }

Ledgers == LedgersUpTo(MaxLedgerRows)

\* The fiscal period tables a full refresh has loaded: none, February and
\* March, and the second half of February.
JournalCalendars ==
    { << >>,
      InsertPeriods(0, generate_fiscal_periods(Date(FirstYear, 2, 1), Date(FirstYear, 3, 31))),
      InsertPeriods(0, generate_fiscal_periods(Date(FirstYear, 2, 15), Date(FirstYear, 2, 15))) }

InitJournal ==
    /\ today = Some(Date(FirstYear, 12, 31))
    /\ fiscal_periods \in JournalCalendars
    /\ period_id_seq = Cardinality(DOMAIN fiscal_periods)
    /\ generate_args = NULL
    /\ generated = NULL
    /\ bronze_ledger \in Ledgers
    /\ accounts \in AccountMaps
    /\ journal_entries = << >>
    /\ journal_lines = {}
    /\ entry_id_seq = 0
    /\ last_call = [op |-> "none", full_refresh |-> FALSE, result |-> "ok", changed |-> {}]
    /\ sync = [state |-> "none", period_id |-> NULL]
    /\ runs = 0
    /\ current_date = 0
    /\ account_balances = << >>
    /\ edits = 0
    /\ AccountsIdle

journal_fixed_vars == << today, fiscal_periods, period_id_seq, generate_args, generated,
                         bronze_ledger, accounts, current_date, account_balances, edits,
                         bronze_num, account_row >>

\* load_journal_entries_main(full_refresh). TRUNCATE TABLE
\* silver.journal_entries CASCADE also empties silver.journal_lines, whose
\* rows reference the entries.
LoadJournalEntriesMain ==
    \E full_refresh \in BOOLEAN, outcome \in JournalLoadOutcomes :
        LET df_entries == extract_bronze_journal_entries
            transformed_data == transform_journal_entries(df_entries, fiscal_periods)
            loaded == DOMAIN transformed_data # {} /\ outcome # "fail"
        IN
        /\ runs < MaxLoads
        /\ journal_entries' =
             load_journal_entries(journal_entries, entry_id_seq, transformed_data,
                                  full_refresh, outcome)
        /\ journal_lines' = IF loaded /\ full_refresh THEN {} ELSE journal_lines
        /\ entry_id_seq' =
             IF loaded THEN entry_id_seq + Cardinality(DOMAIN transformed_data)
             ELSE entry_id_seq
        /\ last_call' = [op |-> "load_journal_entries",
                         full_refresh |-> full_refresh,
                         result |-> Result(outcome),
                         outcome |-> outcome,
                         changed |-> {}]
        /\ sync' = [state |-> IF outcome = "ok" THEN "entries" ELSE sync.state,
                    period_id |-> NULL]
        /\ runs' = runs + 1
        /\ UNCHANGED journal_fixed_vars

\* load_journal_lines_main(full_refresh)
LoadJournalLinesMain ==
    \E full_refresh \in BOOLEAN, outcome \in JournalLoadOutcomes,
       results \in QueryOrders(JoinedLines) :
        LET df_lines == extract_bronze_journal_lines(results)
            transformed == transform_journal_lines(df_lines, accounts)
        IN
        /\ runs < MaxLoads
        /\ journal_lines' =
             load_journal_lines(journal_lines, transformed.transformed_data,
                                full_refresh, outcome)
        /\ last_call' = [op |-> "load_journal_lines",
                         full_refresh |-> full_refresh,
                         result |-> Result(outcome),
                         outcome |-> outcome,
                         changed |-> {},
                         results |-> results,
                         df_lines |-> df_lines,
                         processed |-> Len(transformed.transformed_data),
                         skipped |-> transformed.skipped,
                         skipped_lines |-> transformed.skipped_lines]
        /\ sync' = [state |-> IF outcome = "ok" /\ sync.state \in { "entries", "lines" }
                              THEN "lines" ELSE "none",
                    period_id |-> NULL]
        /\ runs' = runs + 1
        /\ UNCHANGED << journal_entries, entry_id_seq, journal_fixed_vars >>

NextJournal ==
    \/ LoadJournalEntriesMain
    \/ LoadJournalLinesMain

SpecJournal == InitJournal /\ [][NextJournal]_vars
\* ====================================================== balance engine claims
StartDate(p) == fiscal_periods[p].start_date
Net(row) == Some(row.period_debit - row.period_credit)

\* The rows of the same account in periods that start earlier.
EarlierRows(bal, k) ==
    { j \in DOMAIN bal : j[1] = k[1] /\ StartDate(j[2]) < StartDate(k[2]) }

\* The row right before k in the account's chronological chain.
PrevRow(bal, k) ==
    CHOOSE j \in EarlierRows(bal, k) :
        \A i \in EarlierRows(bal, k) : StartDate(i[2]) <= StartDate(j[2])

\* One link of the chain: the start balance is the end balance of the
\* preceding row (0 for the first row), the end balance adds the movements.
ChainRowOK(bal, k) ==
    /\ bal[k].start_balance =
         (IF EarlierRows(bal, k) = {} THEN Some(0) ELSE bal[PrevRow(bal, k)].end_balance)
    /\ ~IsNull(bal[k].start_balance)
    /\ bal[k].end_balance = NullAdd(bal[k].start_balance, Net(bal[k]))

ChainInvariant(bal) == \A k \in DOMAIN bal : ChainRowOK(bal, k)

CalcCompleted ==
    last_call.op \in { "full", "standard" } /\ last_call.result = "ok"

RunStep == runs' # runs

\* C1: after a balance computation (Phase A then Phase B) every account's
\* rows, in start date order, satisfy start[i] = end[i-1] (0 for the first
\* row) and end[i] = start[i] + period_debit[i] - period_credit[i].
C1_BalanceChain == CalcCompleted => ChainInvariant(account_balances)

\* What a full recompute (truncate, Phase A, Phase B) gives for the journal
\* data of the current state.
FullRecompute == calculate_account_balances(Truncate(account_balances), "ok")

\* C2: from a fully computed table, after changing only the journal lines
\* of one period P, a successful recalculate_specific_period(P) leaves the
\* table a full recompute over the same journal data produces.
C2_IncrementalConverges ==
    [][ ( /\ RunStep
          /\ sync.state = "edited"
          /\ last_call'.op = "period"
          /\ last_call'.period_id = sync.period_id
          /\ last_call'.result = "ok" )
        => account_balances' = FullRecompute ]_vars

\* C3: a full refresh run right after a successful full refresh, with no
\* change in between, leaves the identical balance rows.
C3_FullRefreshIdempotent ==
    [][ ( /\ RunStep
          /\ sync.state = "full"
          /\ last_call'.op = "full" /\ last_call'.result = "ok" )
        => account_balances' = account_balances ]_vars

C3_Witness ==
    /\ last_call.op = "full" /\ last_call.result = "ok" /\ last_call.before = "full"
    /\ \E k \in DOMAIN account_balances :
         /\ ~IsNull(prev_period_id(k[2]))
         /\ PrevEnd(account_balances, k[1], Val(prev_period_id(k[2]))) \notin { NULL, Some(0) }

\* The steps of a balance recompute: Phase A and Phase B of
\* calculate_account_balances and of recalculate_specific_period.
PhaseFailures == { "fail_phase_a", "fail_phase_b", "fail_movements", "fail_balances" }

\* C4: an invocation of the balance engine (full refresh, standard or
\* period-scoped) in which Phase A or Phase B fails leaves the balance table
\* exactly as it was before the invocation.
C4_FailureChangesNothing ==
    [][ ( RunStep /\ last_call'.outcome \in PhaseFailures )
        => account_balances' = account_balances ]_vars

\* C5: recalculate_specific_period(P) leaves every balance row of every
\* period that starts before P unchanged.
C5_EarlierPeriodsUntouched ==
    [][ ( RunStep /\ last_call'.op = "period" )
        => \A k \in DOMAIN account_balances :
             StartDate(k[2]) < StartDate(Val(last_call'.period_id))
             => /\ k \in DOMAIN account_balances'
                /\ account_balances'[k] = account_balances[k] ]_vars

\* A period-scoped recompute has completed from a period that is not the
\* first: a row of that period carries forward the non-zero end balance of
\* the preceding period's row.
C5_Witness ==
    /\ last_call.op = "period" /\ last_call.result = "ok"
    /\ \E k \in DOMAIN account_balances :
         /\ Some(k[2]) = last_call.period_id
         /\ EarlierRows(account_balances, k) # {}
         /\ account_balances[k].start_balance
              = account_balances[PrevRow(account_balances, k)].end_balance
         /\ account_balances[k].start_balance \notin { NULL, Some(0) }

\* C6: when period P's movements changed on a consistent chain and
\* recalculate_specific_period(P) completes, every row of P and of every
\* later period starts at the new end balance of the preceding row and ends
\* at start + period_debit - period_credit.
C6_ForwardCascade ==
    [][ ( /\ RunStep
          /\ sync.state = "edited"
          /\ ChainInvariant(account_balances)
          /\ last_call'.op = "period"
          /\ last_call'.period_id = sync.period_id
          /\ last_call'.result = "ok" )
        => \A k \in DOMAIN account_balances' :
             StartDate(k[2]) >= StartDate(Val(last_call'.period_id))
             => ChainRowOK(account_balances', k) ]_vars

\* C7: after calculate_account_balances completes, every row of the table
\* has period_debit and period_credit equal to the sums over the current
\* journal lines of its account in entries of its period.
C7_MovementAggregation ==
    CalcCompleted =>
        \A k \in DOMAIN account_balances :
            /\ account_balances[k].period_debit = SumDebit(MovementLines(k[1], k[2]))
            /\ account_balances[k].period_credit = SumCredit(MovementLines(k[1], k[2]))

\* C8: after a balance computation a row exists for every (account, period)
\* with movement, and for every fiscal period of an account with movement
\* in any period, also for periods that have not ended yet.
Moved(a, p) ==
    SumDebit(MovementLines(a, p)) # 0 \/ SumCredit(MovementLines(a, p)) # 0

C8_RowInclusion ==
    CalcCompleted =>
        \A a \in Accounts, p \in Periods :
            ( \/ Moved(a, p)
              \/ \E q \in Periods : Moved(a, q) )
            => <<a, p>> \in DOMAIN account_balances

\* C9: after a full recompute an account without any journal line has no
\* balance row in any period.
C9_InactiveAccountsHaveNoRows ==
    last_call.op = "full" =>
        \A k \in DOMAIN account_balances : k[1] \in active_accounts

C9_Witness ==
    /\ last_call.op = "full" /\ last_call.result = "ok"
    /\ account_balances # << >>
    /\ Accounts \ active_accounts # {}
    /\ periods_with_accounts # {}

\* ========================================================= classifier claims
Digit(n, i) == (n \div (10 ^ (8 - i))) % 10

\* The account type rule of the PGC, on the digits of an 8-digit code.
AccountTypeRule(n) ==
    LET d1 == Digit(n, 1)
        d2 == Digit(n, 2)
        d34 == Digit(n, 3) * 10 + Digit(n, 4)
    IN CASE d1 \in { 2, 3 } -> "Asset"
         [] d1 \in { 6, 8 } -> "Expense"
         [] d1 \in { 7, 9 } -> "Income"
         [] d1 = 1 -> IF d2 <= 3 THEN "Equity" ELSE "Liability"
         [] d1 = 4 -> IF \/ d2 \in { 0, 1, 6 }
                          \/ (d2 = 7 /\ d34 \in { 50, 51, 52, 58, 59, 60, 61, 70, 79 })
                       THEN "Liability" ELSE "Asset"
         [] d1 = 5 -> IF d2 \in { 0, 1, 2, 5, 6 } THEN "Liability" ELSE "Asset"
         [] OTHER -> "Unknown"

EightDigits == 10000000..99999999

\* C10: the type either accounts loader assigns to an 8-digit code follows
\* the account type rule.
C10_AccountTypeRule ==
    ( ~IsNull(account_row) /\ Val(account_row).account_number \in EightDigits ) =>
        Val(account_row).account_type = AccountTypeRule(Val(account_row).account_number)

\* C11: for every 8-digit code either accounts loader returns one of the
\* types Asset, Liability, Equity, Income, Expense, never Unknown.
C11_ClassificationTotal ==
    ( ~IsNull(account_row) /\ Val(account_row).account_number \in EightDigits ) =>
        Val(account_row).account_type
            \in { "Asset", "Liability", "Equity", "Income", "Expense" }

\* The tax relevance rule on the digits of an 8-digit code.
TaxRelevanceRule(n) ==
    \/ Digit(n, 1) \in { 6, 7 }
    \/ n \div 10000 \in { 4720, 4770, 4740, 4745, 4752 }

\* C12: the tax_relevant flag either accounts loader gives a normalized
\* 8-digit code is true exactly when the leading digit is 6 or 7 or the
\* first four digits are 4720, 4770, 4740, 4745 or 4752.
C12_TaxRelevanceRule ==
    ( ~IsNull(account_row) /\ Val(account_row).account_number \in EightDigits ) =>
        ( Val(account_row).tax_relevant
            <=> TaxRelevanceRule(Val(account_row).account_number) )

\* determine_parent_account applied k times
RECURSIVE ParentTimes(_, _)
ParentTimes(n, k) ==
    IF k = 0 THEN n ELSE ParentTimes(determine_parent_account(n), k - 1)

\* C13: the parent of a code is not above the code, and applying the
\* parent function 7 times to an 8-digit code gives the leading digit
\* times 10^7.
C13_ParentRoot ==
    ~IsNull(account_row) =>
        LET row == Val(account_row) IN
        /\ row.parent_account <= row.account_number
        /\ row.account_number \in EightDigits
             => ParentTimes(row.account_number, 7)
                  = Digit(row.account_number, 1) * 10000000

\* C14: every row of transform_accounts_data has an account number of
\* exactly 8 digits, and a source code of d < 8 digits is scaled to
\* code * 10^(8 - d).
C14_EightDigitCodes ==
    ~IsNull(account_row) =>
        /\ Val(account_row).account_number \in EightDigits
        /\ NumDigits(bronze_num) < 8
             => Val(account_row).account_number
                  = bronze_num * (10 ^ (8 - NumDigits(bronze_num)))

\* ===================================================== fiscal period claims
\* d + timedelta(days=1)
NextDay(d) ==
    IF d.day < DaysInMonth(d.year, d.month) THEN Date(d.year, d.month, d.day + 1)
    ELSE IF d.month < 12 THEN Date(d.year, d.month + 1, 1)
    ELSE Date(d.year + 1, 1, 1)

MonthIndex(d) == d.year * 12 + d.month

\* C15: in every list generate_fiscal_periods returns, a period ends the
\* day before the next one starts, no two periods lie in the same calendar
\* month, and no two periods overlap.
C15_PeriodContiguity ==
    ~IsNull(generated) =>
        LET g == Val(generated).periods IN
        /\ \A i \in 1..(Len(g) - 1) : NextDay(g[i].end_date) = g[i + 1].start_date
        /\ \A i \in 1..Len(g) : DateLE(g[i].start_date, g[i].end_date)
        /\ \A i, j \in 1..Len(g) :
             i < j => /\ MonthIndex(g[i].start_date) # MonthIndex(g[j].start_date)
                      /\ DateLT(g[i].end_date, g[j].start_date)

\* A generated list that starts in the middle of a month and runs over the
\* end of a year.
C15_Witness ==
    /\ ~IsNull(generated)
    /\ Len(Val(generated).periods) > 12
    /\ Val(generated).periods[1].start_date.day # 1

\* C16: for min_date <= max_date the list has one period for every calendar
\* month from the month of min_date to the month of max_date, its first
\* period starts on the first day of the month of min_date and its last
\* period ends on the last day of the month of max_date.
C16_GenerationRange ==
    ( ~IsNull(generated)
      /\ DateLE(Val(generated).start_date, Val(generated).end_date) ) =>
        LET g == Val(generated).periods
            min_date == Val(generated).start_date
            max_date == Val(generated).end_date
        IN
        /\ Len(g) = MonthIndex(max_date) - MonthIndex(min_date) + 1
        /\ \A i \in 1..Len(g) :
             MonthIndex(g[i].start_date) = MonthIndex(min_date) + i - 1
        /\ g[1].start_date = Date(min_date.year, min_date.month, 1)
        /\ g[Len(g)].end_date
             = Date(max_date.year, max_date.month,
                    DaysInMonth(max_date.year, max_date.month))

\* C17: the periods one refresh generates from a non-empty raw ledger cover
\* the date of every ledger timestamp.
C17_PeriodCoverage ==
    ( ~IsNull(generated) /\ Val(generated).by = "main" /\ bronze_ledger # {} ) =>
        \A r \in bronze_ledger :
            \E i \in 1..Len(Val(generated).periods) :
                /\ DateLE(Val(generated).periods[i].start_date, FromTimestamp(r.timestamp))
                /\ DateLE(FromTimestamp(r.timestamp), Val(generated).periods[i].end_date)

\* The table has at most one row for a (year, month).
UniqueYearMonth(table) ==
    \A i, j \in DOMAIN table :
        ( /\ table[i].period_year = table[j].period_year
          /\ table[i].period_month = table[j].period_month ) => i = j

\* The periods of a list for the (year, month) of a row.
PeriodsFor(periods, row) ==
    { i \in 1..Len(periods) :
        /\ periods[i].period_year = row.period_year
        /\ periods[i].period_month = row.period_month }

\* C18: after every run of load_fiscal_periods the table has at most one
\* row for a (year, month); an incremental run keeps every row and its
\* identifier, gives a row whose (year, month) is in the list the columns
\* of the list, and adds a row only for a (year, month) that had none.
C18_UpsertUniqueness ==
    [][ /\ UniqueYearMonth(fiscal_periods')
        /\ ( runs' # runs /\ ~last_call'.full_refresh /\ last_call'.result = "ok" ) =>
             LET periods == Val(generated').periods IN
             /\ \A id \in DOMAIN fiscal_periods :
                  /\ id \in DOMAIN fiscal_periods'
                  /\ \A i \in PeriodsFor(periods, fiscal_periods[id]) :
                       fiscal_periods'[id] = periods[i]
                  /\ PeriodsFor(periods, fiscal_periods[id]) = {}
                       => fiscal_periods'[id] = fiscal_periods[id]
             /\ \A id \in DOMAIN fiscal_periods' \ DOMAIN fiscal_periods :
                  \A k \in DOMAIN fiscal_periods :
                      MonthIndex(fiscal_periods[k].start_date)
                          # MonthIndex(fiscal_periods'[id].start_date) ]_vars

\* An incremental run has changed an existing row, which is still in the
\* table under its identifier, and has added a row.
C18_Witness ==
    /\ last_call.op = "load_fiscal_periods"
    /\ ~last_call.full_refresh
    /\ last_call.result = "ok"
    /\ last_call.changed # {}
    /\ last_call.changed \subseteq DOMAIN fiscal_periods
    /\ \E id \in DOMAIN fiscal_periods : id > period_id_seq - Len(Val(generated).periods)

\* ============================================================ journal claims
\* The periods whose dates, first and last day included, hold a date.
PeriodsHolding(d) ==
    { id \in DOMAIN fiscal_periods :
        /\ DateLE(fiscal_periods[id].start_date, d)
        /\ DateLE(d, fiscal_periods[id].end_date) }

\* C19: every loaded entry has the first period in the order of start
\* dates that contains the moment of its timestamp, and no period when none
\* contains it; a load that completes has a row for every entry number of
\* the raw ledger, the entries without a period included.
C19_EntryPeriod ==
    /\ \A id \in DOMAIN journal_entries :
         LET holding == PeriodsHolding(FromTimestamp(journal_entries[id].original_timestamp))
         IN IF holding = {} THEN IsNull(journal_entries[id].period_id)
            ELSE /\ ~IsNull(journal_entries[id].period_id)
                 /\ Val(journal_entries[id].period_id) \in holding
                 /\ \A k \in holding :
                      DateLE(fiscal_periods[Val(journal_entries[id].period_id)].start_date,
                             fiscal_periods[k].start_date)
    /\ ( last_call.op = "load_journal_entries" /\ last_call.result = "ok" ) =>
         \A r \in bronze_ledger :
             \E id \in DOMAIN journal_entries :
                 journal_entries[id].entry_number = r.entrynumber

\* A load has completed with an entry without a period and an entry in the
\* last second of its period.
C19_Witness ==
    /\ last_call.op = "load_journal_entries" /\ last_call.result = "ok"
    /\ \E id \in DOMAIN journal_entries : IsNull(journal_entries[id].period_id)
    /\ \E id \in DOMAIN journal_entries :
         /\ ~IsNull(journal_entries[id].period_id)
         /\ journal_entries[id].original_timestamp
              = Timestamp(fiscal_periods[Val(journal_entries[id].period_id)].end_date,
                          SecondsPerDay - 1)

\* The stored journal lines of an entry.
LinesOf(id) == { l \in journal_lines : l.entry_id = id }

\* C20: after the journal entries and then the journal lines are loaded
\* from the raw ledger, total_debit of every entry is the sum of
\* debit_amount over its stored lines, and total_credit the sum of
\* credit_amount.
C20_EntryTotals ==
    sync.state = "lines" =>
        \A id \in DOMAIN journal_entries :
            /\ journal_entries[id].total_debit = SumDebit(LinesOf(id))
            /\ journal_entries[id].total_credit = SumCredit(LinesOf(id))

\* ======================================================= line resolver claims
LinesLoadCompleted ==
    last_call.op = "load_journal_lines" /\ last_call.result = "ok"

\* The account identifiers of silver.accounts.
AccountIds == { accounts[n] : n \in DOMAIN accounts }

\* C21: a journal-lines load that completes has stored, for every row it
\* extracted whose account number is not in the account map, a journal line
\* with the row's key and amounts and an account reference that is no
\* account's identifier.
C21_ReferentialGapsKept ==
    LinesLoadCompleted =>
        \A i \in 1..Len(last_call.df_lines) :
            LET x == last_call.df_lines[i] IN
            ( ~IsNull(x.account) /\ Val(x.account) \notin DOMAIN accounts ) =>
                \E l \in journal_lines :
                    /\ l.entry_id = x.entry_id
                    /\ l.line_number = x.line
                    /\ l.account_id \notin AccountIds
                    /\ l.debit_amount = x.debit
                    /\ l.credit_amount = x.credit

\* Two rows of a query result with the same (entry_id, line).
SameResultKey(x, y) == x.entry_id = y.entry_id /\ x.line = y.line

\* A stored journal line holds the columns of a row of the query result.
StoredFrom(l, x) ==
    /\ l.entry_id = x.entry_id
    /\ l.line_number = x.line
    /\ Some(l.account_number) = x.account
    /\ l.debit_amount = x.debit
    /\ l.credit_amount = x.credit

\* C22: no two stored journal lines share (entry_id, line_number), and
\* when the rows a completed load read hold several rows for one key, the
\* first of them in the order read is stored and no other one is.
C22_LineKeyUniqueness ==
    /\ \A l, m \in journal_lines : SameKey(l, m) => l = m
    /\ LinesLoadCompleted =>
         LET results == last_call.results IN
         \A i, j \in 1..Len(results) :
             ( /\ i < j
               /\ SameResultKey(results[i], results[j])
               /\ \A k \in 1..(i - 1) : ~SameResultKey(results[k], results[i]) )
             => /\ \E l \in journal_lines : StoredFrom(l, results[i])
                /\ ~\E l \in journal_lines : StoredFrom(l, results[j])

\* C23: after the journal entries and then the journal lines are loaded
\* from the raw ledger, every row of the raw ledger has a stored journal
\* line or is one of the rows the load logged as skipped, and the number of
\* rows processed plus the number of rows counted as skipped is the number
\* of rows of the raw ledger.
C23_NoSilentSkips ==
    ( LinesLoadCompleted /\ sync.state = "lines" ) =>
        /\ \A r \in bronze_ledger :
             \/ \E l \in journal_lines :
                    /\ journal_entries[l.entry_id].entry_number = r.entrynumber
                    /\ l.line_number = r.line
                    /\ Some(l.account_number) = r.account
                    /\ l.debit_amount = r.debit
                    /\ l.credit_amount = r.credit
             \/ \E x \in last_call.skipped :
                    /\ SameLedgerKey(x, r)
                    /\ x.account = r.account
                    /\ x.debit = r.debit
                    /\ x.credit = r.credit
        /\ last_call.processed + last_call.skipped_lines = Cardinality(bronze_ledger)

\* C24: a journal load (entries or lines) that fails leaves its target
\* table with the rows it had before the invocation.
C24_NoPartialCommit ==
    [][ ( runs' # runs /\ last_call'.result = "failed" )
        => /\ journal_entries' = journal_entries
           /\ journal_lines' = journal_lines ]_vars

\* C25: the is_tax_relevant flag of every stored journal line on an
\* 8-digit account number is the tax_relevant flag loaders/accounts.py
\* gives that account number.
C25_LineTaxMirrorsAccount ==
    \A l \in journal_lines :
        l.account_number \in EightDigits =>
            ( l.is_tax_relevant
                <=> TransformAccount("loaders/accounts.py", l.account_number).tax_relevant )

\* ============================================= balance engine claims, part 2
BalanceRunCompleted ==
    /\ RunStep
    /\ last_call'.op \in { "full", "standard", "period" }
    /\ last_call'.result = "ok"

\* The calendar has one period for every month 1..NumPeriods.
PeriodOfMonth(m) == CHOOSE p \in Periods : StartDate(p) = m

\* The end balance of an account's row in the period of a month, NULL
\* without a row.
MonthEnd(bal, a, m) ==
    IF <<a, PeriodOfMonth(m)>> \in DOMAIN bal
    THEN bal[<<a, PeriodOfMonth(m)>>].end_balance
    ELSE NULL

\* Phase B of a full or standard run told by calendar months: a row of
\* month m starts at the end balance the row of month m - 1 had after
\* Phase A, and a row of the first month starts at 0.
MonthChainCalc(base, after, k) ==
    LET m == StartDate(k[2])
        start == IF m = 1 THEN Some(0) ELSE MonthEnd(base, k[1], m - 1)
    IN /\ after[k].start_balance = start
       /\ after[k].end_balance = NullAdd(start, Net(base[k]))

\* Phase B of a period-scoped run from P told by calendar months: the rows
\* of earlier months are kept, the row of the month of P starts at the end
\* balance of the row of the month before, and a row of a later month m
\* starts at the end balance that the row of month m - 1, or the row of
\* month m when a month lies between P and m, had after the movements of P
\* were updated.
MonthChainRecalc(base, after, P, k) ==
    LET m == StartDate(k[2])
        mP == StartDate(P)
    IN IF m < mP
       THEN /\ after[k].start_balance = base[k].start_balance
            /\ after[k].end_balance = base[k].end_balance
       ELSE IF m = mP
       THEN /\ after[k].start_balance
                 = (IF m = 1 THEN NULL ELSE MonthEnd(base, k[1], m - 1))
            /\ after[k].end_balance
                 = (IF m = 1 \/ <<k[1], PeriodOfMonth(m - 1)>> \notin DOMAIN base
                    THEN NULL
                    ELSE Some(Coalesce0(MonthEnd(base, k[1], m - 1))
                                + Val(Net(base[k]))))
       ELSE \E src \in (IF m - 1 = mP THEN { m - 1 } ELSE { m - 1, m }) :
                /\ after[k].start_balance = MonthEnd(base, k[1], src)
                /\ after[k].end_balance = NullAdd(MonthEnd(base, k[1], src), Net(base[k]))

\* C26: the start and end balances a completed balance run leaves are those
\* of the chain of calendar months, whatever period identifiers the months
\* have: a full or standard run chains every month to the month before, and
\* a period-scoped run from P recomputes the month of P and the later
\* months and no other.
C26_ChronologicalByStartDate ==
    [][ BalanceRunCompleted =>
          \A k \in DOMAIN account_balances' :
              IF last_call'.op = "period"
              THEN MonthChainRecalc(RecalcMovements(account_balances, Val(last_call'.period_id)),
                                    account_balances', Val(last_call'.period_id), k)
              ELSE MonthChainCalc(PhaseA(IF last_call'.op = "full"
                                         THEN Truncate(account_balances)
                                         ELSE account_balances),
                                  account_balances', k) ]_vars

\* A run has completed on a calendar in which a month has a smaller period
\* identifier than the month before it, and the row of that month carries
\* the non-zero end balance of the month before.
C26_Witness ==
    /\ last_call.op \in { "standard", "period" } /\ last_call.result = "ok"
    /\ \E k \in DOMAIN account_balances :
         /\ StartDate(k[2]) > 1
         /\ k[2] < PeriodOfMonth(StartDate(k[2]) - 1)
         /\ account_balances[k].start_balance \notin { NULL, Some(0) }
         /\ account_balances[k].start_balance
              = MonthEnd(account_balances, k[1], StartDate(k[2]) - 1)

C28_RecalcKeepsKeys ==
    [][ ( RunStep /\ last_call'.op = "period" )
        => DOMAIN account_balances' = DOMAIN account_balances ]_vars

\* A period-scoped recompute from P has completed on a table with rows,
\* and an account with journal lines in P has no balance row.
C28_Witness ==
    /\ last_call.op = "period" /\ last_call.result = "ok"
    /\ account_balances # << >>
    /\ \E a \in Accounts :
         /\ Moved(a, Val(last_call.period_id))
         /\ fiscal_periods[Val(last_call.period_id)].end_date <= current_date
         /\ \A p \in Periods : <<a, p>> \notin DOMAIN account_balances

\* The journal lines of an account.
LinesOfAccount(a) == { l \in journal_lines : l.account_id = a }

RECURSIVE SumOfRows(_, _, _)
SumOfRows(bal, keys, col) ==
    IF keys = {} THEN 0
    ELSE LET k == CHOOSE x \in keys : TRUE
         IN bal[k][col] + SumOfRows(bal, keys \ {k}, col)

RowsOfAccount(bal, a) == { k \in DOMAIN bal : k[1] = a }

\* C29: after a full recompute, the sum of period_debit over the balance
\* rows of an account is the sum of debit_amount over its journal lines,
\* and the sum of period_credit the sum of credit_amount.
C29_MovementConservation ==
    ( last_call.op = "full" /\ last_call.result = "ok" ) =>
        \A a \in Accounts :
            /\ SumOfRows(account_balances, RowsOfAccount(account_balances, a), "period_debit")
                 = SumDebit(LinesOfAccount(a))
            /\ SumOfRows(account_balances, RowsOfAccount(account_balances, a), "period_credit")
                 = SumCredit(LinesOfAccount(a))

\* C30: a standard update that completes right after a completed full
\* recompute, with no change of the journal data in between, leaves every
\* balance row as it was.
C30_StandardUpdateStable ==
    [][ ( /\ RunStep
          /\ sync.state = "full"
          /\ last_call'.op = "standard" /\ last_call'.result = "ok" )
        => account_balances' = account_balances ]_vars
====
